---- MODULE Spec2Model ----
(***************************************************************************)
(* Model of hyundai_elevator_wbtool_ver5.0.py: the 0x7E frame detector     *)
(* (TildeFramer), the polling worker thread (SerialReader), and the        *)
(* presentation side (MainWindow): frame decoding, cursor navigation,      *)
(* blink timer and the outbound command bytes.                             *)
(*                                                                         *)
(* Bytes are integers 0..255.  Python str values are sequences of Unicode  *)
(* code points (chr(b) is the code point b, the LCD glyphs are the code    *)
(* points of LCD_CHAR_MAP), so that strip(), the prefixes of _render_lcd   *)
(* and "\n".join are computed character by character.                      *)
(***************************************************************************)
EXTENDS Integers, Sequences, FiniteSets, TLC

(* ------------------------------ bounds --------------------------------- *)
\* bytes the device writes to the port in one run of Spec
MaxSent == 7
\* bytes fed to the frame detector in one run of SpecFeed
MaxFed == 5
\* longest chunk handed to one feed call in SpecFeed
MaxChunk == 2
\* length of the enumerated frames delivered to on_framed in SpecUI
MaxFrameLen == 2
\* most lines of the menu frames delivered to on_framed in SpecUI
MaxMenu == 8
\* QTimer.singleShot callbacks of enter_menu that may be pending at once
MaxFlash == 1
\* readers of earlier connections whose threads may be alive at once
MaxStale == 1
\* length of the enumerated frames decoded in SpecSplit
MaxSplitLen == 4

(* ------------------------- program constants --------------------------- *)
FRAME_DELIM == 126
PAD == 128
PRINTABLE_MIN == 32
PRINTABLE_MAX == 126
CMD_ESC == 4
CMD_UP == 8
CMD_DN == 1
CMD_ENT == 2
\* code points of the characters _render_lcd and _to_text write
MARKER == 9654
SPACE == 32
NEWLINE == 10
CTRL_C0 == 192
CTRL_94 == 148
CTRL_D4 == 212

\* LCD_CHAR_MAP: byte -> glyph code point (U+2191, U+2193, U+25CF, U+25CB)
LCD_CHAR_MAP == (163 :> 8593) @@ (164 :> 8595) @@ (212 :> 9679) @@ (228 :> 9675)

(* --------------------------- str / list helpers ------------------------ *)
\* the code points str.strip() removes (str.isspace)
IsSpace(c) == c \in {9, 10, 11, 12, 13, 28, 29, 30, 31, 32, 133, 160}

RECURSIVE lstrip(_)
lstrip(s) == IF s /= <<>> /\ IsSpace(Head(s)) THEN lstrip(Tail(s)) ELSE s

RECURSIVE rstrip(_)
rstrip(s) ==
    IF s /= <<>> /\ IsSpace(s[Len(s)]) THEN rstrip(SubSeq(s, 1, Len(s) - 1)) ELSE s

\* strip() removing the leading white space only
strip_left_only(s) == lstrip(s)

\* str.strip()
strip(s) == rstrip(lstrip(s))

\* sep.join(parts)
RECURSIVE join(_, _)
join(sep, parts) ==
    IF parts = <<>> THEN <<>>
    ELSE IF Len(parts) = 1 THEN parts[1]
    ELSE parts[1] \o sep \o join(sep, Tail(parts))

\* Python's a % n for n > 0 (the result is in 0..n-1, also for negative a)
PyMod(a, n) == a % n

(* ------------------------------ TildeFramer ---------------------------- *)
\* a detector as constructed: empty buffer, not armed
TildeFramer_init == [buf |-> <<>>, armed |-> FALSE, out |-> <<>>]

\* feed_byte closing a frame on every 0x7E received while armed, also with an
\* empty buffer
feed_byte_emits_empty(st, b) ==
    IF b = FRAME_DELIM
    THEN IF st.armed
         THEN [buf |-> <<>>, armed |-> FALSE, out |-> Append(st.out, st.buf)]
         ELSE [buf |-> <<>>, armed |-> TRUE, out |-> st.out]
    ELSE IF st.armed
         THEN [st EXCEPT !.buf = Append(st.buf, b)]
         ELSE st

\* one iteration of the loop of feed where a delimiter that closes no frame
\* switches the armed flag over
feed_byte_toggles(st, b) ==
    IF b = FRAME_DELIM
    THEN IF st.armed /\ st.buf /= <<>>
         THEN [buf |-> <<>>, armed |-> FALSE, out |-> Append(st.out, st.buf)]
         ELSE [buf |-> <<>>, armed |-> ~st.armed, out |-> st.out]
    ELSE IF st.armed
         THEN [st EXCEPT !.buf = Append(st.buf, b)]
         ELSE st

\* one iteration of the loop of feed on byte b
feed_byte(st, b) ==
    IF b = FRAME_DELIM
    THEN IF st.armed /\ st.buf /= <<>>
         THEN [buf |-> <<>>, armed |-> FALSE, out |-> Append(st.out, st.buf)]
         ELSE [buf |-> <<>>, armed |-> TRUE, out |-> st.out]
    ELSE IF st.armed
         THEN [st EXCEPT !.buf = Append(st.buf, b)]
         ELSE st

RECURSIVE feed_loop(_, _)
feed_loop(st, chunk) ==
    IF chunk = <<>> THEN st ELSE feed_loop(feed_byte(st, Head(chunk)), Tail(chunk))

\* feed with the buffer as a local of the call: what was accumulated by the
\* previous call is forgotten
feed_forgets(buf, armed, chunk) ==
    feed_loop([buf |-> <<>>, armed |-> armed, out |-> <<>>], chunk)

\* feed(chunk) on a detector whose fields are buf and armed: the fields after
\* the call and the list the call returns (out starts empty in every call)
feed(buf, armed, chunk) ==
    feed_loop([buf |-> buf, armed |-> armed, out |-> <<>>], chunk)

(* ----------------------------- LCD decoding ---------------------------- *)
\* _to_text: byte string -> str
RECURSIVE to_text(_)
to_text(raw) ==
    IF raw = <<>> THEN <<>>
    ELSE LET b == Head(raw)
             c == IF b \in DOMAIN LCD_CHAR_MAP THEN <<LCD_CHAR_MAP[b]>>
                  ELSE IF PRINTABLE_MIN <= b /\ b <= PRINTABLE_MAX THEN <<b>>
                  ELSE IF b = 32 THEN <<SPACE>>
                  ELSE <<>>
         IN c \o to_text(Tail(raw))

\* the loop of _split_lcd_lines without the flush of the last buffer
RECURSIVE split_loop_no_flush(_, _, _)
split_loop_no_flush(data, lines, buf) ==
    IF data = <<>>
    THEN lines
    ELSE LET b == Head(data) IN
         IF b \in {CTRL_C0, CTRL_94, CTRL_D4}
         THEN IF buf /= <<>>
              THEN split_loop_no_flush(Tail(data), Append(lines, strip(to_text(buf))), <<>>)
              ELSE split_loop_no_flush(Tail(data), lines, buf)
         ELSE IF (32 <= b /\ b <= 126) \/ b \in DOMAIN LCD_CHAR_MAP
              THEN split_loop_no_flush(Tail(data), lines, Append(buf, b))
              ELSE split_loop_no_flush(Tail(data), lines, buf)

\* the loop of _split_lcd_lines testing for a glyph or printable byte before
\* testing for a terminator
RECURSIVE split_loop_glyph_first(_, _, _)
split_loop_glyph_first(data, lines, buf) ==
    IF data = <<>>
    THEN IF buf /= <<>> THEN Append(lines, strip(to_text(buf))) ELSE lines
    ELSE LET b == Head(data) IN
         IF (32 <= b /\ b <= 126) \/ b \in DOMAIN LCD_CHAR_MAP
         THEN split_loop_glyph_first(Tail(data), lines, Append(buf, b))
         ELSE IF b \in {CTRL_C0, CTRL_94, CTRL_D4}
              THEN IF buf /= <<>>
                   THEN split_loop_glyph_first(Tail(data),
                                               Append(lines, strip(to_text(buf))), <<>>)
                   ELSE split_loop_glyph_first(Tail(data), lines, buf)
              ELSE split_loop_glyph_first(Tail(data), lines, buf)

\* the loop of _split_lcd_lines with its two locals, lines and buf
RECURSIVE split_loop(_, _, _)
split_loop(data, lines, buf) ==
    IF data = <<>>
    THEN IF buf /= <<>> THEN Append(lines, strip(to_text(buf))) ELSE lines
    ELSE LET b == Head(data) IN
         IF b \in {CTRL_C0, CTRL_94, CTRL_D4}
         THEN IF buf /= <<>>
              THEN split_loop(Tail(data), Append(lines, strip(to_text(buf))), <<>>)
              ELSE split_loop(Tail(data), lines, buf)
         ELSE IF (32 <= b /\ b <= 126) \/ b \in DOMAIN LCD_CHAR_MAP
              THEN split_loop(Tail(data), lines, Append(buf, b))
              ELSE split_loop(Tail(data), lines, buf)

\* [ln for ln in lines if ln.strip() != ""]
RECURSIVE drop_blank(_)
drop_blank(lines) ==
    IF lines = <<>> THEN <<>>
    ELSE IF strip(Head(lines)) /= <<>> THEN <<Head(lines)>> \o drop_blank(Tail(lines))
    ELSE drop_blank(Tail(lines))

\* _split_lcd_lines returning the lines without the final filter
split_lcd_lines_keeps_blank(data) == split_loop(data, <<>>, <<>>)

\* _split_lcd_lines
split_lcd_lines(data) == drop_blank(split_loop(data, <<>>, <<>>))

\* bytearray(b for b in frame if b not in (0x80,))
RECURSIVE drop_pad(_)
drop_pad(frame) ==
    IF frame = <<>> THEN <<>>
    ELSE IF Head(frame) \notin {PAD} THEN <<Head(frame)>> \o drop_pad(Tail(frame))
    ELSE drop_pad(Tail(frame))

\* the prefix of _render_lcd with the marker on the cursor line at all times
prefix_ignores_blink(i, cursor_index, cursor_visible) ==
    IF i = cursor_index THEN <<MARKER, SPACE>> ELSE <<SPACE, SPACE>>

\* the prefix _render_lcd puts before line i
prefix(i, cursor_index, cursor_visible) ==
    IF i = cursor_index /\ cursor_visible THEN <<MARKER, SPACE>> ELSE <<SPACE, SPACE>>

\* _render_lcd without the index correction
render_lcd_keeps_index(lines0, idx, visible, text) ==
    IF lines0 = <<>> THEN [cursor_index |-> idx, text |-> text]
    ELSE LET lines == drop_blank(lines0) IN
         IF lines = <<>> THEN [cursor_index |-> idx, text |-> text]
         ELSE LET rendered == [i \in 1..Len(lines) |->
                                  prefix(i - 1, idx, visible) \o lines[i]]
              IN [cursor_index |-> idx, text |-> join(<<NEWLINE>>, rendered)]

\* _render_lcd clamping the index to the last line instead of reducing it
render_lcd_clamps(lines0, idx, visible, text) ==
    IF lines0 = <<>> THEN [cursor_index |-> idx, text |-> text]
    ELSE LET lines == drop_blank(lines0) IN
         IF lines = <<>> THEN [cursor_index |-> idx, text |-> text]
         ELSE LET i2 == IF idx >= Len(lines) THEN Len(lines) - 1 ELSE idx
                  rendered == [i \in 1..Len(lines) |->
                                  prefix(i - 1, i2, visible) \o lines[i]]
              IN [cursor_index |-> i2, text |-> join(<<NEWLINE>>, rendered)]

\* _render_lcd on the fields (current_lines, cursor_index, cursor_visible) and
\* the text of lcd_view: the cursor index and the text after the call
render_lcd(lines0, idx, visible, text) ==
    IF lines0 = <<>> THEN [cursor_index |-> idx, text |-> text]
    ELSE LET lines == drop_blank(lines0) IN
         IF lines = <<>> THEN [cursor_index |-> idx, text |-> text]
         ELSE LET i2 == PyMod(idx, Len(lines))
                  rendered == [i \in 1..Len(lines) |->
                                  prefix(i - 1, i2, visible) \o lines[i]]
              IN [cursor_index |-> i2, text |-> join(<<NEWLINE>>, rendered)]

(* ------------------------------- state --------------------------------- *)
VARIABLES
    \* MainWindow fields and widgets
    cursor_index,    \* self.cursor_index
    current_lines,   \* self.current_lines
    cursor_visible,  \* self.cursor_visible
    lcd_text,        \* text of self.lcd_view
    lcd_color,       \* text colour of the style sheet of self.lcd_view
    flash,           \* pending QTimer.singleShot callbacks of enter_menu
    btn_conn,        \* btn_conn is enabled (btn_disc is enabled when it is not)
    ser,             \* self.ser: "None", or the port "open" or "closed"
    upc,             \* position of the main thread: "idle" or inside on_disconnect
    \* SerialReader thread
    wpc,             \* position of run(): none, while, in_waiting, read, raw, feed, emit, msleep,
                     \* finished, raised
    _running,        \* self._running
    n,               \* local n of run(), from its assignment to its use by read (else 0)
    data_read,       \* local data of run(), from its assignment to its use by feed
                     \* (else <<>>)
    frames,          \* frames returned by feed and not yet emitted by the for loop
    _in,             \* self._framer._in
    _armed,          \* self._framer._armed
    stale,           \* the readers of earlier connections whose threads are still alive:
                     \* for each its position in run() and what it will still use of
                     \* its locals and its framer
                     \* (each has been stopped and its port closed by on_disconnect)
    \* transport and signal queue
    rx,              \* bytes waiting in the port's input buffer
    queue,           \* queued signal emissions waiting for the main thread, oldest first
    \* a record of what the last handler of the main thread did, kept when watch holds
    watch,           \* the record is kept in this run
    op,              \* its name
    decoded,         \* the number of lines on_framed decoded from its frame
    old,             \* the MainWindow fields before it ran
    blink2,          \* <<cursor_visible before the last two handlers>> when both were
                     \* toggle_cursor, <<>> otherwise
    cmd,             \* the bytes it passed to _send
    wrote,           \* the bytes _send wrote to the port
    log_tail,        \* the entries it appended to self.log
    \* history
    sent,            \* number of bytes the device has written
    fed,             \* all bytes handed to feed so far (SpecFeed)
    produced,        \* all frames returned by feed so far, in order
    consumed         \* all frames on_framed has processed, in order

modelVars == <<cursor_index, current_lines, cursor_visible, lcd_text>>
styleVars == <<lcd_color, flash>>
connVars == <<btn_conn, ser, upc>>
workerVars == <<wpc, _running, n, data_read, frames, _in, _armed, stale>>
lastVars == <<watch, op, decoded, old, blink2, cmd, wrote, log_tail>>
vars == <<cursor_index, current_lines, cursor_visible, lcd_text, lcd_color, flash,
          btn_conn, ser, upc, wpc, _running, n, data_read, frames, _in, _armed, stale, rx, queue,
          watch, op, decoded, old, blink2, cmd, wrote, log_tail, sent, fed, produced, consumed>>

\* the MainWindow fields a handler starts from
snapshot == [cursor_index |-> cursor_index, current_lines |-> current_lines,
             cursor_visible |-> cursor_visible, lcd_text |-> lcd_text]

\* MainWindow.__init__; no SerialReader exists yet
Start ==
    /\ cursor_index = 0
    /\ current_lines = <<>>
    /\ cursor_visible = TRUE
    /\ lcd_text = <<>>
    /\ lcd_color = "white"
    /\ flash = 0
    /\ btn_conn = TRUE
    /\ ser = "None"
    /\ upc = "idle"
    /\ wpc = "none"
    /\ _running = FALSE
    /\ stale = <<>>
    /\ n = 0
    /\ data_read = <<>>
    /\ frames = <<>>
    /\ _in = <<>>
    /\ _armed = FALSE
    /\ rx = <<>>
    /\ queue = <<>>
    /\ op = "init"
    /\ decoded = 0
    /\ old = [cursor_index |-> 0, current_lines |-> <<>>,
              cursor_visible |-> TRUE, lcd_text |-> <<>>]
    /\ blink2 = <<>>
    /\ cmd = <<>>
    /\ wrote = <<>>
    /\ log_tail = <<>>
    /\ sent = 0
    /\ fed = <<>>
    /\ produced = <<>>
    /\ consumed = <<>>

Init == Start /\ watch = FALSE

(* ------------------------- main thread: handlers ----------------------- *)
\* bookkeeping of a handler named name that calls _send on no bytes
Ran(name) ==
    /\ UNCHANGED watch
    /\ IF watch
       THEN /\ op' = name
            /\ old' = snapshot
            /\ blink2' = IF name = "toggle_cursor" /\ op = "toggle_cursor"
                         THEN <<old.cursor_visible>> ELSE <<>>
       ELSE UNCHANGED <<op, old, blink2>>

\* the record of a handler's calls: data passed to _send, bytes written to
\* the port, entries appended to the log
Did(data, written, entries) ==
    IF watch
    THEN cmd' = data /\ wrote' = written /\ log_tail' = entries
    ELSE UNCHANGED <<cmd, wrote, log_tail>>

NoSend == Did(<<>>, <<>>, <<>>)

\* _send(data): written and logged when the port is open, the exception
\* logged when write raises, nothing at all without an open port
send(data) ==
    IF ser = "open"
    THEN \/ Did(data, data, <<[tag |-> "[TX]", data |-> data]>>)
         \/ Did(data, <<>>, <<[tag |-> "[TX ERROR]", data |-> <<>>]>>)
    ELSE Did(data, <<>>, <<>>)

\* on_framed(frame).  (A local of a handler is bound with \E over a
\* one-element set, which evaluates it once.)
on_framed(frame) ==
    /\ upc = "idle"
    /\ \E lines \in {split_lcd_lines(drop_pad(frame))} :
       \E r \in {render_lcd(lines, cursor_index, cursor_visible, lcd_text)} :
       /\ current_lines' = lines
       /\ cursor_index' = r.cursor_index
       /\ lcd_text' = r.text
       /\ decoded' = IF watch THEN Len(lines) ELSE decoded
       /\ Ran("on_framed") /\ NoSend
       /\ UNCHANGED <<cursor_visible, styleVars, connVars, workerVars, rx, sent, fed, produced>>

\* on_raw(data): one entry appended to the log
on_raw(data) ==
    /\ upc = "idle"
    /\ Did(<<>>, <<>>, <<[tag |-> "RX", data |-> data]>>)
    /\ Ran("on_raw")
    /\ UNCHANGED <<modelVars, styleVars, connVars, workerVars, rx, sent, fed, produced, decoded>>

\* the main thread's event loop delivers the oldest queued signal to its slot
Deliver ==
    /\ queue /= <<>>
    /\ queue' = Tail(queue)
    /\ IF Head(queue).sig = "data_framed"
       THEN on_framed(Head(queue).data) /\ consumed' = Append(consumed, Head(queue).data)
       ELSE on_raw(Head(queue).data) /\ UNCHANGED consumed

\* toggle_cursor setting the flag instead of inverting it
toggle_cursor_shows ==
    /\ upc = "idle"
    /\ \E v \in {TRUE} :
       \E r \in {render_lcd(current_lines, cursor_index, v, lcd_text)} :
       /\ cursor_visible' = v
       /\ cursor_index' = r.cursor_index
       /\ lcd_text' = r.text
       /\ Ran("toggle_cursor") /\ NoSend
       /\ UNCHANGED <<current_lines, styleVars, connVars, workerVars, rx, queue, sent, fed,
                      produced, consumed, decoded>>

\* toggle_cursor, the slot of cursor_timer
toggle_cursor ==
    /\ upc = "idle"
    /\ \E v \in {~cursor_visible} :
       \E r \in {render_lcd(current_lines, cursor_index, v, lcd_text)} :
       /\ cursor_visible' = v
       /\ cursor_index' = r.cursor_index
       /\ lcd_text' = r.text
       /\ Ran("toggle_cursor") /\ NoSend
       /\ UNCHANGED <<current_lines, styleVars, connVars, workerVars, rx, queue, sent, fed,
                      produced, consumed, decoded>>

\* move_up stopping at the first line instead of wrapping
up_index_stops(i, count) == IF i = 0 THEN 0 ELSE i - 1

\* the index move_up and move_dn compute from i over count lines
up_index(i, count) == PyMod(i - 1, count)

dn_index(i, count) == PyMod(i + 1, count)

\* move_up sending its command also when there are no lines
move_up_always_sends ==
    /\ upc = "idle"
    /\ Ran("move_up")
    /\ IF current_lines = <<>>
       THEN send(<<CMD_UP>>) /\ UNCHANGED <<cursor_index, lcd_text>>
       ELSE \E i \in {up_index(cursor_index, Len(current_lines))} :
            \E r \in {render_lcd(current_lines, i, cursor_visible, lcd_text)} :
               /\ cursor_index' = r.cursor_index
               /\ lcd_text' = r.text
               /\ send(<<CMD_UP>>)
    /\ UNCHANGED <<current_lines, cursor_visible, styleVars, connVars, workerVars, rx, queue,
                   sent, fed, produced, consumed, decoded>>

\* move_up
move_up ==
    /\ upc = "idle"
    /\ Ran("move_up")
    /\ IF current_lines = <<>>
       THEN NoSend /\ UNCHANGED <<cursor_index, lcd_text>>
       ELSE \E i \in {up_index(cursor_index, Len(current_lines))} :
            \E r \in {render_lcd(current_lines, i, cursor_visible, lcd_text)} :
               /\ cursor_index' = r.cursor_index
               /\ lcd_text' = r.text
               /\ send(<<CMD_UP>>)
    /\ UNCHANGED <<current_lines, cursor_visible, styleVars, connVars, workerVars, rx, queue,
                   sent, fed, produced, consumed, decoded>>

\* move_dn
move_dn ==
    /\ upc = "idle"
    /\ Ran("move_dn")
    /\ IF current_lines = <<>>
       THEN NoSend /\ UNCHANGED <<cursor_index, lcd_text>>
       ELSE \E i \in {dn_index(cursor_index, Len(current_lines))} :
            \E r \in {render_lcd(current_lines, i, cursor_visible, lcd_text)} :
               /\ cursor_index' = r.cursor_index
               /\ lcd_text' = r.text
               /\ send(<<CMD_DN>>)
    /\ UNCHANGED <<current_lines, cursor_visible, styleVars, connVars, workerVars, rx, queue,
                   sent, fed, produced, consumed, decoded>>

\* enter_menu moving the cursor back to the first line
enter_menu_resets_cursor ==
    /\ upc = "idle"
    /\ flash < MaxFlash
    /\ send(<<CMD_ENT>>)
    /\ lcd_color' = "yellow"
    /\ flash' = flash + 1
    /\ cursor_index' = 0
    /\ Ran("enter_menu")
    /\ UNCHANGED <<current_lines, cursor_visible, lcd_text, connVars, workerVars, rx, queue,
                   sent, fed, produced, consumed, decoded>>

\* enter_menu: sends ENT, turns the text yellow and schedules the singleShot
enter_menu ==
    /\ upc = "idle"
    /\ flash < MaxFlash
    /\ send(<<CMD_ENT>>)
    /\ lcd_color' = "yellow"
    /\ flash' = flash + 1
    /\ Ran("enter_menu")
    /\ UNCHANGED <<modelVars, connVars, workerVars, rx, queue, sent, fed, produced, consumed, decoded>>

\* the singleShot lambda of enter_menu: back to white
flash_end ==
    /\ upc = "idle"
    /\ flash > 0
    /\ lcd_color' = "white"
    /\ flash' = flash - 1
    /\ UNCHANGED <<modelVars, connVars, workerVars, rx, queue, sent, fed, produced, consumed,
                   lastVars>>

\* the lambda connected to btn_esc.clicked
esc_clicked ==
    /\ upc = "idle"
    /\ send(<<CMD_ESC>>)
    /\ Ran("esc")
    /\ UNCHANGED <<modelVars, styleVars, connVars, workerVars, rx, queue, sent, fed, produced,
                   consumed, decoded>>

\* the reader at position pos of run() as a replaced reader: any poll or read
\* of its closed port raises, so its framer is used only by a feed already
\* due and its frames only by the for loop it is in
StaleReader(pos, d, fs, buf, armed) ==
    IF pos \in {"raw", "feed"}
    THEN [wpc |-> pos, data |-> d, frames |-> <<>>, buf |-> buf, armed |-> armed]
    ELSE IF pos = "emit"
    THEN [wpc |-> pos, data |-> <<>>, frames |-> fs, buf |-> <<>>, armed |-> FALSE]
    ELSE [wpc |-> pos, data |-> <<>>, frames |-> <<>>, buf |-> <<>>, armed |-> FALSE]

\* on_connect with a port that opens (a bad baud rate or a SerialException
\* returns with nothing changed).  A new SerialReader is created and started
\* whether or not the previous reader's thread has ended: a thread that is
\* still alive keeps running, connected to on_raw and on_framed, with its
\* closed port (at most MaxStale of them at once).
on_connect ==
    /\ upc = "idle"
    /\ btn_conn
    /\ IF wpc \in {"none", "finished", "raised"}
       THEN UNCHANGED stale
       ELSE /\ Len(stale) < MaxStale
            /\ stale' = Append(stale, StaleReader(wpc, data_read, frames, _in, _armed))
    /\ ser' = "open"
    /\ rx' = <<>>
    /\ _running' = TRUE
    /\ _in' = <<>>
    /\ _armed' = FALSE
    /\ n' = 0
    /\ data_read' = <<>>
    /\ frames' = <<>>
    /\ wpc' = "while"
    /\ btn_conn' = FALSE
    /\ Ran("on_connect") /\ NoSend
    /\ UNCHANGED <<modelVars, styleVars, upc, queue, sent, fed, produced, consumed, decoded>>

\* on_disconnect up to reader.wait(500): stop() clears the flag, the main
\* thread then blocks in wait
on_disconnect_stop ==
    /\ upc = "idle"
    /\ ~btn_conn
    /\ _running' = FALSE
    /\ upc' = "wait"
    /\ Ran("on_disconnect") /\ NoSend
    /\ UNCHANGED <<modelVars, styleVars, btn_conn, ser, wpc, n, data_read, frames, _in, _armed, stale,
                   rx, queue, sent, fed, produced, consumed, decoded>>

\* on_disconnect after wait returned, because run() has ended or because the
\* 500 ms have passed: the port is closed and the buttons are switched
on_disconnect_close ==
    /\ upc = "wait"
    /\ ser' = "closed"
    /\ rx' = <<>>
    /\ btn_conn' = TRUE
    /\ upc' = "idle"
    /\ UNCHANGED <<modelVars, styleVars, workerVars, queue, sent, fed, produced, consumed,
                   lastVars>>

(* --------------------------- SerialReader.run -------------------------- *)
\* while self._running
w_while ==
    /\ wpc = "while"
    /\ wpc' = IF _running THEN "in_waiting" ELSE "finished"
    /\ UNCHANGED <<modelVars, styleVars, connVars, stale, _running, n, data_read, frames, _in, _armed,
                   rx, queue, sent, fed, produced, consumed, lastVars>>

\* n = self.ser.in_waiting; if n: (raises on a closed port)
w_in_waiting ==
    /\ wpc = "in_waiting"
    /\ IF ser = "open"
       THEN /\ n' = Len(rx)
            /\ wpc' = IF Len(rx) > 0 THEN "read" ELSE "msleep"
       ELSE /\ wpc' = "raised"
            /\ UNCHANGED n
    /\ UNCHANGED <<modelVars, styleVars, connVars, stale, _running, data_read, frames, _in, _armed,
                   rx, queue, sent, fed, produced, consumed, lastVars>>

\* data = self.ser.read(n) (raises on a closed port)
w_read ==
    /\ wpc = "read"
    /\ IF ser = "open"
       THEN /\ data_read' = SubSeq(rx, 1, n)
            /\ rx' = SubSeq(rx, n + 1, Len(rx))
            /\ wpc' = "raw"
       ELSE /\ wpc' = "raised"
            /\ UNCHANGED <<data_read, rx>>
    /\ n' = 0
    /\ UNCHANGED <<modelVars, styleVars, connVars, stale, _running, frames, _in, _armed,
                   queue, sent, fed, produced, consumed, lastVars>>

\* self.data_raw.emit(data)  (the queued emission is kept in its place in the
\* queue, without the bytes, which on_raw only formats into the log)
w_raw ==
    /\ wpc = "raw"
    /\ queue' = Append(queue, [sig |-> "data_raw", data |-> <<>>])
    /\ wpc' = "feed"
    /\ UNCHANGED <<modelVars, styleVars, connVars, stale, _running, n, data_read, frames, _in,
                   _armed, rx, sent, fed, produced, consumed, lastVars>>

\* self._framer.feed(data), the list the for loop then goes through
w_feed ==
    /\ wpc = "feed"
    /\ LET r == feed(_in, _armed, data_read)
       IN /\ _in' = r.buf
          /\ _armed' = r.armed
          /\ frames' = r.out
          /\ produced' = produced \o r.out
    /\ data_read' = <<>>
    /\ wpc' = "emit"
    /\ UNCHANGED <<modelVars, styleVars, connVars, stale, _running, n, rx, queue, sent,
                   fed, consumed, lastVars>>

\* for frame in ...: self.data_framed.emit(frame)
w_emit ==
    /\ wpc = "emit"
    /\ IF frames /= <<>>
       THEN /\ queue' = Append(queue, [sig |-> "data_framed", data |-> Head(frames)])
            /\ frames' = Tail(frames)
            /\ UNCHANGED wpc
       ELSE /\ wpc' = "msleep"
            /\ UNCHANGED <<queue, frames>>
    /\ UNCHANGED <<modelVars, styleVars, connVars, stale, _running, n, data_read, _in, _armed, rx,
                   sent, fed, produced, consumed, lastVars>>

\* self.msleep(5)
w_msleep ==
    /\ wpc = "msleep"
    /\ wpc' = "while"
    /\ UNCHANGED <<modelVars, styleVars, connVars, stale, _running, n, data_read, frames, _in, _armed,
                   rx, queue, sent, fed, produced, consumed, lastVars>>

(* ------------- SerialReader.run of a reader replaced by on_connect ------ *)
\* stale without its i-th reader
RemoveAt(seq, i) == SubSeq(seq, 1, i - 1) \o SubSeq(seq, i + 1, Len(seq))

\* while self._running: the flag is cleared, run() returns
stale_while ==
    \E i \in 1..Len(stale) :
        /\ stale[i].wpc = "while"
        /\ stale' = RemoveAt(stale, i)
        /\ UNCHANGED <<modelVars, styleVars, connVars, wpc, _running, n, data_read, frames, _in,
                       _armed, rx, queue, sent, fed, produced, consumed, lastVars>>

\* n = self.ser.in_waiting on the closed port: raises, the thread ends
stale_in_waiting ==
    \E i \in 1..Len(stale) :
        /\ stale[i].wpc = "in_waiting"
        /\ stale' = RemoveAt(stale, i)
        /\ UNCHANGED <<modelVars, styleVars, connVars, wpc, _running, n, data_read, frames, _in,
                       _armed, rx, queue, sent, fed, produced, consumed, lastVars>>

\* data = self.ser.read(n) on the closed port: raises, the thread ends
stale_read ==
    \E i \in 1..Len(stale) :
        /\ stale[i].wpc = "read"
        /\ stale' = RemoveAt(stale, i)
        /\ UNCHANGED <<modelVars, styleVars, connVars, wpc, _running, n, data_read, frames, _in,
                       _armed, rx, queue, sent, fed, produced, consumed, lastVars>>

\* self.data_raw.emit(data)
stale_raw ==
    \E i \in 1..Len(stale) :
        /\ stale[i].wpc = "raw"
        /\ queue' = Append(queue, [sig |-> "data_raw", data |-> <<>>])
        /\ stale' = [stale EXCEPT ![i].wpc = "feed"]
        /\ UNCHANGED <<modelVars, styleVars, connVars, wpc, _running, n, data_read, frames, _in,
                       _armed, rx, sent, fed, produced, consumed, lastVars>>

\* self._framer.feed(data), the list the for loop then goes through
stale_feed ==
    \E i \in 1..Len(stale) :
        /\ stale[i].wpc = "feed"
        /\ LET r == feed(stale[i].buf, stale[i].armed, stale[i].data)
           IN /\ stale' = [stale EXCEPT ![i] = StaleReader("emit", <<>>, r.out, r.buf, r.armed)]
              /\ produced' = produced \o r.out
        /\ UNCHANGED <<modelVars, styleVars, connVars, wpc, _running, n, data_read, frames, _in,
                       _armed, rx, queue, sent, fed, consumed, lastVars>>

\* for frame in ...: self.data_framed.emit(frame)
stale_emit ==
    \E i \in 1..Len(stale) :
        /\ stale[i].wpc = "emit"
        /\ IF stale[i].frames /= <<>>
           THEN /\ queue' = Append(queue, [sig |-> "data_framed",
                                           data |-> Head(stale[i].frames)])
                /\ stale' = [stale EXCEPT ![i].frames = Tail(@)]
           ELSE /\ stale' = [stale EXCEPT ![i].wpc = "msleep"]
                /\ UNCHANGED queue
        /\ UNCHANGED <<modelVars, styleVars, connVars, wpc, _running, n, data_read, frames, _in,
                       _armed, rx, sent, fed, produced, consumed, lastVars>>

\* self.msleep(5)
stale_msleep ==
    \E i \in 1..Len(stale) :
        /\ stale[i].wpc = "msleep"
        /\ stale' = [stale EXCEPT ![i].wpc = "while"]
        /\ UNCHANGED <<modelVars, styleVars, connVars, wpc, _running, n, data_read, frames, _in,
                       _armed, rx, queue, sent, fed, produced, consumed, lastVars>>

(* ------------------------------ the device ----------------------------- *)
\* the bytes the device writes in Spec: the delimiter and a letter
DevBytes == {FRAME_DELIM, 65}

DeviceSend ==
    \E b \in DevBytes :
        /\ ser = "open"
        /\ sent < MaxSent
        /\ rx' = Append(rx, b)
        /\ sent' = sent + 1
        /\ UNCHANGED <<modelVars, styleVars, connVars, workerVars, queue, fed, produced,
                       consumed, lastVars>>

(* --------------------------- the whole program ------------------------- *)
Next ==
    \/ DeviceSend
    \/ w_while
    \/ w_in_waiting
    \/ w_read
    \/ w_raw
    \/ w_feed
    \/ w_emit
    \/ w_msleep
    \/ stale_while
    \/ stale_in_waiting
    \/ stale_read
    \/ stale_raw
    \/ stale_feed
    \/ stale_emit
    \/ stale_msleep
    \/ Deliver
    \/ toggle_cursor
    \/ move_up
    \/ move_dn
    \/ enter_menu
    \/ flash_end
    \/ esc_clicked
    \/ on_connect
    \/ on_disconnect_stop
    \/ on_disconnect_close

Spec == Init /\ [][Next]_vars

(* ------------- the detector alone, fed chunk by chunk (SpecFeed) ------- *)
FeedBytes == {FRAME_DELIM, 65, 66}

\* every byte string over FeedBytes of length at most MaxChunk, the empty one included
Chunks == UNION {[1..k -> FeedBytes] : k \in 0..MaxChunk}

\* one call self._framer.feed(chunk) on the reader's detector
FeedCall ==
    \E chunk \in Chunks :
        LET r == feed(_in, _armed, chunk) IN
        /\ Len(fed) + Len(chunk) <= MaxFed
        /\ _in' = r.buf
        /\ _armed' = r.armed
        /\ produced' = produced \o r.out
        /\ fed' = fed \o chunk
        /\ UNCHANGED <<modelVars, styleVars, connVars, wpc, _running, n, data_read, frames, stale,
                       rx, queue, sent, consumed, lastVars>>

SpecFeed == Init /\ [][FeedCall]_vars

(* ------- the main thread, frames arriving from the queue (SpecUI) ------ *)
\* The handlers of the main thread with any frame arriving at any time.  The
\* running reader's steps are left out: they touch no field of MainWindow, and
\* reader.wait(500) then always returns by its timeout.  A reader replaced by
\* a later on_connect is found at its while test, where its thread ends.
UIBytes == {65, CTRL_C0, PAD}

\* a frame of k one-letter lines "A", "B", ... separated by 0xC0
MenuFrame(k) == [i \in 1..(2 * k - 1) |-> IF i % 2 = 1 THEN 64 + (i + 1) \div 2 ELSE CTRL_C0]

\* the frames delivered to on_framed: every non-empty string over UIBytes of
\* length at most MaxFrameLen, and the menus of up to MaxMenu lines
UIFrames ==
    (UNION {[1..k -> UIBytes] : k \in 1..MaxFrameLen}) \cup {MenuFrame(k) : k \in 1..MaxMenu}

\* a data_framed emission reaches its slot
FrameArrival ==
    \E frame \in UIFrames : on_framed(frame) /\ UNCHANGED <<queue, consumed>>

InitUI == Start /\ watch = TRUE

NextUI ==
    \/ FrameArrival
    \/ toggle_cursor
    \/ move_up
    \/ move_dn
    \/ enter_menu
    \/ flash_end
    \/ esc_clicked
    \/ on_connect
    \/ on_disconnect_stop
    \/ on_disconnect_close
    \/ stale_while

SpecUI == InitUI /\ [][NextUI]_vars

(* ------------- one frame through the decoder (SpecSplit) --------------- *)
\* the bytes of the frames: a letter, a space, the three terminators, the
\* three other glyph bytes, the padding byte and a byte that is dropped
SplitBytes == {65, 32, CTRL_C0, CTRL_94, CTRL_D4, 163, 164, 228, PAD, 0}

\* the frame of the example: A, 0xC0, B, 0x94, C
ExampleFrame == <<65, CTRL_C0, 66, CTRL_94, 67>>

\* every non-empty string over SplitBytes of length at most MaxSplitLen, and the example
SplitFrames ==
    (UNION {[1..k -> SplitBytes] : k \in 1..MaxSplitLen}) \cup {ExampleFrame}

\* the worker emits data_framed(frame): the emission is queued for on_framed
\* (one frame in each run)
PostFrame ==
    /\ queue = <<>>
    /\ consumed = <<>>
    /\ \E frame \in SplitFrames :
           queue' = <<[sig |-> "data_framed", data |-> frame]>>
    /\ UNCHANGED <<modelVars, styleVars, connVars, workerVars, rx, sent, fed, produced,
                   consumed, lastVars>>

NextSplit ==
    \/ PostFrame
    \/ Deliver

SpecSplit == Init /\ [][NextSplit]_vars

(* -------------------------------- claims ------------------------------- *)
IsPrefix(a, b) == Len(a) <= Len(b) /\ SubSeq(b, 1, Len(a)) = a

\* C1: however the bytes fed so far were cut into chunks (empty and one-byte
\* chunks included), the frames emitted over all the calls, the buffer and
\* the armed flag are those of one feed of all the bytes to a fresh detector.
C1_ChunkIndependence ==
    LET whole == feed(<<>>, FALSE, fed)
    IN produced = whole.out /\ _in = whole.buf /\ _armed = whole.armed

\* a two-byte frame followed by a delimiter, fed in three calls or more
C1_Witness ==
    fed = <<FRAME_DELIM, 65, 66, FRAME_DELIM, FRAME_DELIM>> /\ produced = << <<65, 66>> >>

\* C2: every frame ever emitted is non-empty and holds no 0x7E; a second 0x7E
\* right after a 0x7E emits nothing and leaves the detector armed with an
\* empty buffer, and a pair of 0x7E emits at most the frame accumulated
\* before it, never an empty one.
C2_FramesNonEmpty ==
    /\ \A i \in 1..Len(produced) :
          produced[i] /= <<>> /\ \A j \in 1..Len(produced[i]) : produced[i][j] /= FRAME_DELIM
    /\ (Len(fed) >= 2 /\ fed[Len(fed)] = FRAME_DELIM /\ fed[Len(fed) - 1] = FRAME_DELIM)
          => (_armed /\ _in = <<>>)
    /\ LET one == feed(_in, _armed, <<FRAME_DELIM>>)
           two == feed(one.buf, one.armed, <<FRAME_DELIM>>)
           pair == feed(_in, _armed, <<FRAME_DELIM, FRAME_DELIM>>)
       IN /\ two.out = <<>> /\ two.armed /\ two.buf = <<>>
          /\ pair.armed /\ pair.buf = <<>>
          /\ pair.out = IF _armed /\ _in /= <<>> THEN <<_in>> ELSE <<>>

\* two delimiters in a row have been fed after a frame was emitted
C2_Witness ==
    /\ Len(fed) >= 2 /\ fed[Len(fed)] = FRAME_DELIM /\ fed[Len(fed) - 1] = FRAME_DELIM
    /\ produced /= <<>>
    /\ _armed /\ _in = <<>>

\* C3 as claimed: the frames on_framed has processed are a prefix of the
\* frames feed has returned, in production order.
C3_OrderedHandoff ==
    IsPrefix(consumed, produced)

\* C4: a frame that decodes to zero lines leaves the stored line set, the
\* cursor index and the displayed text as they were.
C4_StaleLinesHeld ==
    (op = "on_framed" /\ decoded = 0)
        => /\ current_lines = old.current_lines
           /\ cursor_index = old.cursor_index
           /\ lcd_text = old.lcd_text

\* C5: whenever the line set is non-empty, 0 <= cursor_index < number of lines.
C5_CursorValid ==
    current_lines /= <<>> => (0 <= cursor_index /\ cursor_index < Len(current_lines))

\* a frame with fewer lines than the cursor index has replaced the line set
C5_Witness ==
    /\ op = "on_framed"
    /\ current_lines /= <<>>
    /\ old.cursor_index >= Len(current_lines)

\* C6: a frame decoding to n >= 1 lines sets the cursor index to the old
\* index modulo n.
C6_IndexModulo ==
    (op = "on_framed" /\ decoded >= 1) => cursor_index = old.cursor_index % decoded

\* index 7, a frame of 3 lines: index 1
C6_Witness ==
    /\ op = "on_framed"
    /\ old.cursor_index = 7
    /\ decoded = 3
    /\ Len(current_lines) = 3
    /\ cursor_index = 1

\* C7: with n >= 1 lines, move_up sets the index to (i-1) mod n and sends the
\* one byte 0x08, move_dn sets it to (i+1) mod n and sends the one byte 0x01.
C7_MoveWraps ==
    /\ (op = "move_up" /\ old.current_lines /= <<>>)
          => /\ cursor_index = (old.cursor_index - 1) % Len(old.current_lines)
             /\ cmd = <<CMD_UP>>
             /\ wrote \in {<<>>, <<CMD_UP>>}
    /\ (op = "move_dn" /\ old.current_lines /= <<>>)
          => /\ cursor_index = (old.cursor_index + 1) % Len(old.current_lines)
             /\ cmd = <<CMD_DN>>
             /\ wrote \in {<<>>, <<CMD_DN>>}

\* move_up from index 0 over 3 lines has landed on index 2 and written 0x08
C7_Witness ==
    /\ op = "move_up"
    /\ Len(old.current_lines) = 3
    /\ old.cursor_index = 0
    /\ cursor_index = 2
    /\ wrote = <<CMD_UP>>

\* C8: with zero lines move_up and move_dn change nothing and send nothing.
C8_MoveNoLines ==
    (op \in {"move_up", "move_dn"} /\ old.current_lines = <<>>)
        => /\ cursor_index = old.cursor_index
           /\ current_lines = <<>>
           /\ cursor_visible = old.cursor_visible
           /\ lcd_text = old.lcd_text
           /\ cmd = <<>>
           /\ wrote = <<>>

\* move_up was pressed with zero lines stored and the port open
C8_Witness ==
    /\ op = "move_up"
    /\ old.current_lines = <<>>
    /\ ser = "open"
    /\ upc = "idle"

\* C9: the ESC button sends 0x04 and enter_menu sends 0x02, and neither
\* changes the cursor index, the line set or the blink flag.
C9_EscEnterKeepModel ==
    /\ op = "esc" => cmd = <<CMD_ESC>>
    /\ op = "enter_menu" => cmd = <<CMD_ENT>>
    /\ op \in {"esc", "enter_menu"}
          => /\ cursor_index = old.cursor_index
             /\ current_lines = old.current_lines
             /\ cursor_visible = old.cursor_visible

\* ENT was pressed with the cursor on a line other than the first and written
C9_Witness ==
    /\ op = "enter_menu"
    /\ cursor_index > 0
    /\ current_lines /= <<>>
    /\ wrote = <<CMD_ENT>>

\* C10: toggle_cursor inverts the blink flag and changes neither the cursor
\* index nor the line set; after two toggle_cursor calls in a row the flag is
\* what it was before them.
C10_BlinkInvolution ==
    /\ op = "toggle_cursor"
          => /\ cursor_visible = ~old.cursor_visible
             /\ cursor_index = old.cursor_index
             /\ current_lines = old.current_lines
    /\ blink2 /= <<>> => cursor_visible = blink2[1]

\* two toggle_cursor calls in a row with lines on the display
C10_Witness ==
    /\ op = "toggle_cursor"
    /\ blink2 /= <<>>
    /\ current_lines /= <<>>
    /\ cursor_index > 0

(* ------------------ claims about the decoding of one frame ------------- *)
\* the frame on_framed has decoded in a run of SpecSplit, once it has
Decoded == consumed /= <<>>

TheFrame == consumed[1]

Min(S) == CHOOSE x \in S : \A y \in S : x <= y

Max(S) == CHOOSE x \in S : \A y \in S : x >= y

\* text without its leading and trailing spaces
Trimmed(text) ==
    LET solid == {i \in 1..Len(text) : text[i] /= 32}
    IN IF solid = {} THEN <<>> ELSE SubSeq(text, Min(solid), Max(solid))

IsTerminator(b) == b \in {192, 148, 212}

IsKept(b) == (32 <= b /\ b <= 126) \/ b \in {163, 164, 228}

\* the character shown for a kept byte
Shown(b) == IF b = 163 THEN 8593 ELSE IF b = 164 THEN 8595 ELSE IF b = 228 THEN 9675 ELSE b

\* the text of the kept bytes of a run of bytes
RunText(run) ==
    LET kept == SelectSeq(run, IsKept)
    IN Trimmed([i \in 1..Len(kept) |-> Shown(kept[i])])

\* the lines of the runs of f that start after position from (0, or the
\* position of a terminator), in order, blank ones left out
RECURSIVE RunLines(_, _)
RunLines(f, from) ==
    LET ends == {i \in (from + 1)..Len(f) : IsTerminator(f[i])} \cup {Len(f) + 1}
        to == Min(ends)
        line == RunText(SubSeq(f, from + 1, to - 1))
        rest == IF to > Len(f) THEN <<>> ELSE RunLines(f, to)
    IN IF line = <<>> THEN rest ELSE <<line>> \o rest

\* the number of positions of s that hold x
Count(s, x) == Cardinality({i \in 1..Len(s) : s[i] = x})

RECURSIVE Flat(_)
Flat(lines) == IF lines = <<>> THEN <<>> ELSE Head(lines) \o Flat(Tail(lines))

\* C11: no line of a decoded frame is empty after trimming, and a frame of
\* only 0xC0, 0x94, 0xD4 and 0x80 bytes decodes to no line at all.
C11_NoBlankLines ==
    Decoded =>
        /\ \A i \in 1..Len(current_lines) : Trimmed(current_lines[i]) /= <<>>
        /\ (\A j \in 1..Len(TheFrame) : TheFrame[j] \in {192, 148, 212, 128})
              => current_lines = <<>>

\* a run of one space before a terminator was dropped, the letter after it kept
C11_Witness == Decoded /\ TheFrame = <<32, 192, 65>> /\ current_lines = << <<65>> >>

\* C12 as claimed: a frame of printable bytes without a terminator decodes
\* to exactly one line, the trimmed text of the frame.
C12_OneLine ==
    (Decoded /\ \A j \in 1..Len(TheFrame) : 32 <= TheFrame[j] /\ TheFrame[j] <= 126)
        => current_lines = <<Trimmed(TheFrame)>>

\* C12 as amended: a frame of printable bytes without a terminator decodes to
\* exactly one line, the trimmed text of the frame, when some byte of it is
\* not a space, and to no line when all its bytes are spaces.
C12_OneLineUnlessBlank ==
    (Decoded /\ \A j \in 1..Len(TheFrame) : 32 <= TheFrame[j] /\ TheFrame[j] <= 126)
        => current_lines =
              IF \E j \in 1..Len(TheFrame) : TheFrame[j] /= 32
              THEN <<Trimmed(TheFrame)>> ELSE <<>>

\* a frame of a letter between spaces was decoded to the letter alone
C12_Witness == Decoded /\ TheFrame = <<32, 65, 32, 32>> /\ current_lines = << <<65>> >>

\* C13: the lines of a decoded frame are those of the runs between its
\* terminators, in frame order: the kept bytes of the run as characters,
\* trimmed, blank results left out, the run after the last terminator included.
C13_LinesAreRuns ==
    Decoded => current_lines = RunLines(TheFrame, 0)

\* the example: A, 0xC0, B, 0x94, C decodes to "A", "B", "C"
C13_Witness ==
    Decoded /\ TheFrame = ExampleFrame /\ current_lines = << <<65>>, <<66>>, <<67>> >>

\* C14: no line and no displayed text holds the filled circle, a 0xD4 ends
\* the line before it, and each 0xA3, 0xA4, 0xE4 of the frame is shown as
\* its glyph.
C14_D4Terminates ==
    Decoded =>
        /\ Count(Flat(current_lines), 9679) = 0
        /\ Count(lcd_text, 9679) = 0
        /\ Count(Flat(current_lines), 8593) = Count(TheFrame, 163)
        /\ Count(Flat(current_lines), 8595) = Count(TheFrame, 164)
        /\ Count(Flat(current_lines), 9675) = Count(TheFrame, 228)
        /\ \A j \in 1..(Len(TheFrame) - 2) :
              (IsKept(TheFrame[j]) /\ TheFrame[j] /= 32 /\ TheFrame[j + 1] = 212
                  /\ IsKept(TheFrame[j + 2]) /\ TheFrame[j + 2] /= 32)
                 => Len(current_lines) >= 2

\* an up arrow, 0xD4, a hollow circle: two lines of one glyph each
C14_Witness ==
    Decoded /\ TheFrame = <<163, 212, 228>> /\ current_lines = << <<8593>>, <<9675>> >>

(* ------------------------ claims about sending -------------------------- *)
\* C15 as claimed: a send that wrote nothing (no port, a closed port, or a
\* write that raised) left exactly one report in the log, and a handler that
\* only sends left the cursor index and the lines as they were.
C15_FailedSendReported ==
    (cmd /= <<>> /\ wrote = <<>>) =>
        /\ Len(log_tail) = 1
        /\ log_tail[1].tag = "[TX ERROR]"
        /\ op \in {"esc", "enter_menu"} =>
              (cursor_index = old.cursor_index /\ current_lines = old.current_lines)

(* --------------------- claims about the reader thread ------------------- *)
\* C16 as claimed, its part on the read in flight: a read the loop has begun
\* (in_waiting returned a count) is completed, so its frames can be handed
\* over before the loop exits.
C16_ReadInFlightCompletes ==
    [][~(wpc = "read" /\ wpc' = "raised")]_vars

\* C20 as claimed: the reader thread never polls or reads the port after
\* on_disconnect has closed it (a poll or read of the closed port raises).
C20_NoPollAfterClose ==
    wpc /= "raised"

(* ------------------------ claims about the display ---------------------- *)
\* the display of lines i.. of lines: each line after its two-character
\* prefix, the marker on the line at index idx when vis, lines joined by \n
RECURSIVE DisplayFrom(_, _, _, _)
DisplayFrom(lines, i, idx, vis) ==
    IF i > Len(lines) THEN <<>>
    ELSE (IF i - 1 = idx /\ vis THEN <<9654, 32>> ELSE <<32, 32>>)
         \o lines[i]
         \o (IF i < Len(lines) THEN <<10>> \o DisplayFrom(lines, i + 1, idx, vis) ELSE <<>>)

\* C17: while lines are held, the display shows them in index order, each
\* after a two-character prefix that is the marker and a space on line i
\* exactly when i is the cursor index and the cursor is blink-visible.
C17_RenderPrefixes ==
    current_lines /= <<>> =>
        lcd_text = DisplayFrom(current_lines, 1, cursor_index, cursor_visible)

\* two lines, the cursor on the second and visible
C17_Witness ==
    /\ current_lines = << <<65>>, <<66>> >>
    /\ cursor_index = 1
    /\ cursor_visible
    /\ lcd_text = <<32, 32, 65, 10, 9654, 32, 66>>

\* C18 as claimed: once the display shows a line, after each toggle_cursor
\* the displayed text carries the marker exactly when the cursor is
\* blink-visible.
C18_BlinkShowsMarker ==
    (op = "toggle_cursor" /\ lcd_text /= <<>>) =>
        ((\E i \in 1..Len(lcd_text) : lcd_text[i] = 9654) <=> cursor_visible)

(* ------------------ claims about the detector's recovery ---------------- *)
\* the non-empty delimiter-free payloads of the recovery check
Payloads == UNION {[1..k -> FeedBytes \ {126}] : k \in 1..MaxChunk}

\* C19: from every state of the detector, feed returns for every chunk;
\* bytes other than the delimiter fed while disarmed change nothing and yield
\* no frame; two delimiters in a row leave it armed with an empty buffer, so
\* that a payload P closed by a delimiter after them is emitted as exactly P.
C19_SelfHealing ==
    /\ \A chunk \in Chunks : Len(feed(_in, _armed, chunk).out) >= 0
    /\ ~_armed =>
          \A P \in Payloads :
              feed(_in, _armed, P) = [buf |-> _in, armed |-> FALSE, out |-> <<>>]
    /\ LET two == feed(_in, _armed, <<126, 126>>)
       IN two.armed /\ two.buf = <<>>
    /\ \A P \in Payloads :
          LET r == feed(_in, _armed, <<126, 126>> \o P \o <<126>>)
          IN /\ r.out /= <<>>
             /\ r.out[Len(r.out)] = P
             /\ Len(r.out) <= 2
             /\ r.buf = <<>>
    /\ \A P \in Payloads :
          LET k == Len(P) + 3
          IN (Len(fed) >= k /\ SubSeq(fed, Len(fed) - k + 1, Len(fed)) = <<126, 126>> \o P \o <<126>>)
                => (produced /= <<>> /\ produced[Len(produced)] = P)

\* a byte fed while disarmed left no trace, and the payload after two
\* delimiters came out alone
C19_Witness ==
    fed = <<65, 126, 126, 66, 126>> /\ produced = << <<66>> >> /\ ~_armed /\ _in = <<>>
====
